---------------------------- MODULE Spec2Model ----------------------------
(***************************************************************************)
(* ReboundPy: the live-stream statistics client (src/src/stream.py) and    *)
(* its data model (src/src/models.py).                                     *)
(*                                                                         *)
(* Three specifications share the variables below:                         *)
(*   Spec     stream(): the reconnect loop, the keep-alive and the frame   *)
(*            processing tasks, the router and the aggregator behind it;   *)
(*   AggSpec  the aggregator alone: _process_play_data and Player.add_play *)
(*            called with inputs drawn from bounded sets;                  *)
(*   MsgSpec  the message classes alone: Handshake/Connect/Subscribe       *)
(*            constructed in any order.                                    *)
(* FairSpec is Spec with the fairness of asyncio's cooperative scheduler.  *)
(***************************************************************************)
EXTENDS Integers, Sequences, FiniteSets, TLC

VARIABLES
    _sports_code,      \* LiveStreamStats._sports_code
    _game_id,          \* LiveStreamStats._game_id
    away_scoreboard,   \* LiveStreamStats.away_scoreboard
    home_scoreboard,   \* LiveStreamStats.home_scoreboard
    snapshot,          \* the two scoreboards as __init__ built them (never written again)
    response,          \* what fetch_url returned to __init__
    _websocket_message_ext,   \* LiveStreamStats._websocket_message_ext
    _session_cookie,   \* LiveStreamStats._session_cookie
    _client_id,        \* LiveStreamStats._client_id (NoAttr until first assigned)
    _id_counter,       \* the class attribute _id_counter of each message class
    pc,                \* where stream() stands
    conn,              \* number of the websocket the connect iterator yielded last
    sockets,           \* per websocket: its state and the handshake acknowledgment
    tasks,             \* the asyncio tasks created by stream() that have not ended
    error,             \* the exception that ended stream(), "none" while it runs
    wire,              \* every message constructed, in construction order
    inflight,          \* the messages (indices of wire) whose send is in progress
    lastFrame,         \* the inbound frame the last processing step received
    calls,             \* the aggregator calls made by the last handler that ran
    nframes,           \* inbound frames received so far
    ncalls,            \* handler calls made so far (AggSpec, MsgSpec)
    held,              \* history: the shorthands each scoreboard has ever held
    seen               \* history: the (player, tuple) pairs add_play was called with

vars == << _sports_code, _game_id, away_scoreboard, home_scoreboard, snapshot,
           response, _websocket_message_ext, _session_cookie,
           _client_id, _id_counter, pc, conn, sockets, tasks, error, wire, inflight,
           lastFrame, calls, nframes, ncalls, held, seen >>

aggVars == << away_scoreboard, home_scoreboard, held, seen >>
sessionVars == << _sports_code, _game_id, snapshot, response,
                 _websocket_message_ext, _session_cookie >>
protoVars == << _client_id, _id_counter, pc, conn, sockets, tasks, error, wire, inflight >>

-----------------------------------------------------------------------------
(* Bounds of the model.                                                    *)

\* play identifiers are 1..MaxPlayId
MaxPlayId == 2
\* handler calls in one behaviour of AggSpec
MaxCalls == 3
\* message constructions in one behaviour of MsgSpec
MaxMsgs == 5
\* websockets the connect iterator supplies in one behaviour of Spec
MaxConn == 2
\* keep-alive messages sent on one open websocket
MaxKeepAlive == 1
\* inbound frames received in one behaviour of Spec
MaxFrames == 2
\* cookies in the Set-Cookie header of the box-score response
MaxCookies == 2

-----------------------------------------------------------------------------
(* Python values.                                                          *)

\* None; no team shorthand equals it (a shorthand is [A-Za-z]+)
None == "<None>"
\* an attribute that was never assigned (reading it raises AttributeError)
NoAttr == "<unset>"

\* str(int) and int(str) on the decimal strings the model uses; int() of any
\* other string raises ValueError
Decimals == << "0", "1", "2", "3", "4", "5", "6", "7", "8", "9", "10", "11", "12",
              "13", "14", "15", "16", "17", "18", "19", "20" >>
IsDecimal(s) == \E i \in 1..Len(Decimals) : Decimals[i] = s
IntOf(s) == (CHOOSE i \in 1..Len(Decimals) : Decimals[i] = s) - 1
StrOf(n) == Decimals[n + 1]

\* dict.get(key, default) on a dict held as a sequence of <<key, value>> pairs
DictHas(d, k) == \E i \in 1..Len(d) : d[i][1] = k
DictGet(d, k, default) ==
    IF DictHas(d, k)
    THEN d[CHOOSE i \in 1..Len(d) : d[i][1] = k /\ \A j \in (i+1)..Len(d) : d[j][1] # k][2]
    ELSE default

-----------------------------------------------------------------------------
(* Play text.  A text is a sequence of tokens; a token is a word, a player *)
(* reference "Name(TEAM)" or a comma.  Every token is a triple of strings. *)

W(w) == << "w", w, "" >>
Ref(name, team) == << "ref", name, team >>
Comma == << ",", "", "" >>

IsWord(t) == t[1] = "w"
IsRef(t) == t[1] = "ref"

\* str.lower() on the words of the model (re.IGNORECASE)
Lower(w) ==
    CASE w = "Layup" -> "layup"
      [] w = "Jump Shot" -> "jump shot"
      [] w = "Free Throw" -> "free throw"
      [] w = "Foul" -> "foul"
      [] w = "Turnover" -> "turnover"
      [] OTHER -> w

\* re.search of one keyword: some word of the text is the keyword
HasWord(text, kw) ==
    \E i \in 1..Len(text) : IsWord(text[i]) /\ Lower(text[i][2]) = kw

\* re.search of "(a|b).*kw": a word of `firsts`, then later the keyword
HasWordThen(text, firsts, kw) ==
    \E i \in 1..Len(text) : \E j \in (i+1)..Len(text) :
        /\ IsWord(text[i]) /\ Lower(text[i][2]) \in firsts
        /\ IsWord(text[j]) /\ Lower(text[j][2]) = kw

\* str.split(","): the sub-events of a raw play text ("" splits to [""])
RECURSIVE SplitAt(_, _)
SplitAt(text, acc) ==
    IF text = << >> THEN << acc >>
    ELSE IF Head(text) = Comma THEN << acc >> \o SplitAt(Tail(text), << >>)
    ELSE SplitAt(Tail(text), Append(acc, Head(text)))

Split(text) == SplitAt(text, << >>)

-----------------------------------------------------------------------------
(* models.py: Play, Player, Scoreboard.                                    *)

Play(play_id, play_text, clock, period) ==
    [ play_id |-> play_id, play_text |-> play_text, clock |-> clock, period |-> period ]

\* the fields of Player that carry a "regex" in their metadata, in field order
RegexFields ==
    << "field_goals_made", "field_goals_attempted",
       "three_point_field_goals_made", "three_point_field_goals_attempted",
       "free_throws_made", "free_throws_attempted", "turnovers", "fouls" >>

\* a variant of RegexSearch whose attempted rules group the alternative,
\* as in "3pt.*(missed|made)"
RegexSearchGrouped(field_name, play_text) ==
    CASE field_name = "field_goals_made" ->
             HasWordThen(play_text, {"jump shot", "layup"}, "made")
      [] field_name = "field_goals_attempted" ->
             HasWordThen(play_text, {"free throw"}, "missed")
                \/ HasWordThen(play_text, {"free throw"}, "made")
      [] field_name = "three_point_field_goals_made" ->
             HasWordThen(play_text, {"3pt"}, "made")
      [] field_name = "three_point_field_goals_attempted" ->
             HasWordThen(play_text, {"3pt"}, "missed") \/ HasWordThen(play_text, {"3pt"}, "made")
      [] field_name = "free_throws_made" ->
             HasWordThen(play_text, {"free throw"}, "made")
      [] field_name = "free_throws_attempted" ->
             HasWordThen(play_text, {"free throw"}, "missed")
                \/ HasWordThen(play_text, {"free throw"}, "made")
      [] field_name = "turnovers" -> HasWord(play_text, "turnover")
      [] field_name = "fouls" -> HasWord(play_text, "foul")
      [] OTHER -> FALSE

\* re.search(regex of the field, play_text, re.IGNORECASE)
RegexSearch(field_name, play_text) ==
    CASE field_name = "field_goals_made" ->
             HasWordThen(play_text, {"jump shot", "layup"}, "made")
      [] field_name = "field_goals_attempted" ->
             HasWordThen(play_text, {"free throw"}, "missed") \/ HasWord(play_text, "made")
      [] field_name = "three_point_field_goals_made" ->
             HasWordThen(play_text, {"3pt"}, "made")
      [] field_name = "three_point_field_goals_attempted" ->
             HasWordThen(play_text, {"3pt"}, "missed") \/ HasWord(play_text, "made")
      [] field_name = "free_throws_made" ->
             HasWordThen(play_text, {"free throw"}, "made")
      [] field_name = "free_throws_attempted" ->
             HasWordThen(play_text, {"free throw"}, "missed") \/ HasWord(play_text, "made")
      [] field_name = "turnovers" -> HasWord(play_text, "turnover")
      [] field_name = "fouls" -> HasWord(play_text, "foul")
      [] OTHER -> FALSE

\* Player(...): the dataclass with its defaults; `stats` gives the counters
\* the box score already shows
Player(name, number, stats) ==
    [ name |-> name, number |-> number, position |-> "G", starter |-> 1,
      on_court |-> 1, minutes_played |-> "0:00",
      field_goals_made |-> stats[1], field_goals_attempted |-> stats[2],
      three_point_field_goals_made |-> 0, three_point_field_goals_attempted |-> 0,
      free_throws_made |-> 0, free_throws_attempted |-> 0,
      points |-> stats[3], offensive_rebounds |-> 0, defensive_rebounds |-> 0,
      total_rebounds |-> 0, assists |-> 0, turnovers |-> 0, steals |-> 0,
      blocks |-> 0, fouls |-> stats[4], disqualifications |-> 0,
      technical_fouls |-> 0, plays |-> << >> ]

\* a variant of _update_stats_from_play that leaves the loop at the first
\* match (a `break` after `matched = True`)
_update_stats_first_match(self, play_text) ==
    LET at == { j \in 1..Len(RegexFields) : RegexSearch(RegexFields[j], play_text) }
        first == IF at = {} THEN {}
                 ELSE { RegexFields[CHOOSE j \in at : \A k \in at : j <= k] }
    IN  [ player |-> [ f \in DOMAIN self |-> IF f \in first THEN self[f] + 1 ELSE self[f] ],
          matched |-> at # {} ]

\* a variant of _update_stats_from_play that also adds a point for every
\* made rule that matches
_update_stats_with_points(self, play_text) ==
    LET hits == { RegexFields[i] : i \in { j \in 1..Len(RegexFields) :
                                           RegexSearch(RegexFields[j], play_text) } }
        made == hits \cap { "field_goals_made", "three_point_field_goals_made",
                            "free_throws_made" }
    IN  [ player |-> [ f \in DOMAIN self |->
                         IF f \in hits THEN self[f] + 1
                         ELSE IF f = "points" THEN self[f] + Cardinality(made)
                         ELSE self[f] ],
          matched |-> hits # {} ]

\* Player._update_stats_from_play: every field with a regex is tried
_update_stats_from_play(self, play_text) ==
    LET hits == { RegexFields[i] : i \in { j \in 1..Len(RegexFields) :
                                           RegexSearch(RegexFields[j], play_text) } }
    IN  [ player |-> [ f \in DOMAIN self |-> IF f \in hits THEN self[f] + 1 ELSE self[f] ],
          matched |-> hits # {} ]

\* the generator of add_play: the plays it lets through
ExistingPlays(self, play_id, play_text, clock, period) ==
    { i \in 1..Len(self.plays) :
         /\ self.plays[i].play_id = play_id
         /\ play_text = play_text
         /\ clock = clock
         /\ period = period }

\* a variant of add_play that updates the counters before it looks for an
\* existing play
add_play_count_first(self, play_id, play_text, clock, period) ==
    LET existing == ExistingPlays(self, play_id, play_text, clock, period)
        new_play == Play(play_id, play_text, clock, period)
        upd == _update_stats_from_play(self, new_play.play_text)
    IN  IF existing # {}
        THEN [ player |-> upd.player,
               ret |-> self.plays[CHOOSE i \in existing : \A j \in existing : i <= j],
               new |-> FALSE, matched |-> TRUE ]
        ELSE [ player |-> [ upd.player EXCEPT !.plays = Append(self.plays, new_play) ],
               ret |-> new_play, new |-> TRUE, matched |-> upd.matched ]

\* a variant of add_play that puts the new Play in front of the others
add_play_prepend(self, play_id, play_text, clock, period) ==
    LET existing == ExistingPlays(self, play_id, play_text, clock, period)
        new_play == Play(play_id, play_text, clock, period)
        upd == _update_stats_from_play(self, new_play.play_text)
    IN  IF existing # {}
        THEN [ player |-> self,
               ret |-> self.plays[CHOOSE i \in existing : \A j \in existing : i <= j],
               new |-> FALSE, matched |-> TRUE ]
        ELSE [ player |-> [ upd.player EXCEPT !.plays = << new_play >> \o self.plays ],
               ret |-> new_play, new |-> TRUE, matched |-> upd.matched ]

\* Player.add_play: the player afterwards, the Play returned, whether it is new
add_play(self, play_id, play_text, clock, period) ==
    LET existing == ExistingPlays(self, play_id, play_text, clock, period)
        new_play == Play(play_id, play_text, clock, period)
        upd == _update_stats_from_play(self, new_play.play_text)
    IN  IF existing # {}
        THEN [ player |-> self,
               ret |-> self.plays[CHOOSE i \in existing : \A j \in existing : i <= j],
               new |-> FALSE, matched |-> TRUE ]
        ELSE [ player |-> [ upd.player EXCEPT !.plays = Append(self.plays, new_play) ],
               ret |-> new_play, new |-> TRUE, matched |-> upd.matched ]

Scoreboard(team_name, players) ==
    [ team_name |-> team_name, team_logo_url |-> None, players |-> players,
      team_shortname |-> None ]

\* Scoreboard.get_player_by_name: the index of the first player of that name, 0 for None
get_player_by_name(self, name) ==
    LET found == { i \in 1..Len(self.players) : self.players[i].name = name }
    IN  IF found = {} THEN 0 ELSE CHOOSE i \in found : \A j \in found : i <= j

-----------------------------------------------------------------------------
(* stream.py: the aggregator side of LiveStreamStats.                      *)

\* a variant of _get_player whose fallback assigns the shorthand to the away
\* scoreboard before it tests whether the player was found
_get_player_bind_first(away, home, player_name, team_shortname) ==
    LET a == get_player_by_name(away, player_name)
        h == get_player_by_name(home, player_name)
        bound == [ away EXCEPT !.team_shortname = team_shortname ]
        out(aw, hm, t, i) ==
            [ away |-> aw, home |-> hm, team |-> IF i = 0 THEN None ELSE t, idx |-> i ]
    IN  IF away.team_shortname = team_shortname THEN out(away, home, "away", a)
        ELSE IF home.team_shortname = team_shortname THEN out(away, home, "home", h)
        ELSE IF a # 0 THEN out(bound, home, "away", a)
        ELSE IF h # 0
             THEN out(away, [home EXCEPT !.team_shortname = team_shortname], "home", h)
        ELSE out(bound, home, None, 0)

\* a variant of _get_player whose fallback searches the home scoreboard
\* before the away scoreboard
_get_player_home_first(away, home, player_name, team_shortname) ==
    LET a == get_player_by_name(away, player_name)
        h == get_player_by_name(home, player_name)
        out(aw, hm, t, i) ==
            [ away |-> aw, home |-> hm, team |-> IF i = 0 THEN None ELSE t, idx |-> i ]
    IN  IF away.team_shortname = team_shortname THEN out(away, home, "away", a)
        ELSE IF home.team_shortname = team_shortname THEN out(away, home, "home", h)
        ELSE IF h # 0
             THEN out(away, [home EXCEPT !.team_shortname = team_shortname], "home", h)
        ELSE IF a # 0
             THEN out([away EXCEPT !.team_shortname = team_shortname], home, "away", a)
        ELSE out(away, home, None, 0)

\* a variant of _get_player that does not test the home scoreboard's
\* shorthand before the fallback
_get_player_skip_home(away, home, player_name, team_shortname) ==
    LET a == get_player_by_name(away, player_name)
        h == get_player_by_name(home, player_name)
        out(aw, hm, t, i) ==
            [ away |-> aw, home |-> hm, team |-> IF i = 0 THEN None ELSE t, idx |-> i ]
    IN  IF away.team_shortname = team_shortname THEN out(away, home, "away", a)
        ELSE IF a # 0
             THEN out([away EXCEPT !.team_shortname = team_shortname], home, "away", a)
        ELSE IF h # 0
             THEN out(away, [home EXCEPT !.team_shortname = team_shortname], "home", h)
        ELSE out(away, home, None, 0)

\* LiveStreamStats._get_player: the scoreboards afterwards and the player
\* returned (team None, idx 0 when it returns None)
_get_player(away, home, player_name, team_shortname) ==
    LET a == get_player_by_name(away, player_name)
        h == get_player_by_name(home, player_name)
        out(aw, hm, t, i) ==
            [ away |-> aw, home |-> hm, team |-> IF i = 0 THEN None ELSE t, idx |-> i ]
    IN  IF away.team_shortname = team_shortname THEN out(away, home, "away", a)
        ELSE IF home.team_shortname = team_shortname THEN out(away, home, "home", h)
        ELSE IF a # 0
             THEN out([away EXCEPT !.team_shortname = team_shortname], home, "away", a)
        ELSE IF h # 0
             THEN out(away, [home EXCEPT !.team_shortname = team_shortname], "home", h)
        ELSE out(away, home, None, 0)

\* the group player_name of a match ending at token i: the letters and
\* spaces before the "(" reach back over every word up to the previous
\* reference; a digit ("3pt") cuts the run
RECURSIVE NameRun(_, _)
NameRun(play_text, i) ==
    IF i = 1 THEN << >>
    ELSE LET t == play_text[i-1]
         IN  IF ~IsWord(t) THEN << >>
             ELSE IF t[2] = "3pt" THEN << "pt" >>
             ELSE Append(NameRun(play_text, i-1), t[2])

\* LiveStreamStats._parse_plays: the matches of the pattern, left to right
\* (player_name already stripped)
_parse_plays(play_text) ==
    LET at == { i \in 1..Len(play_text) : IsRef(play_text[i]) }
        RECURSIVE upto(_)
        upto(i) ==
            IF i = 0 THEN << >>
            ELSE IF i \in at
                 THEN Append(upto(i-1),
                             [ player_name |-> Append(NameRun(play_text, i), play_text[i][2]),
                               team_shortname |-> play_text[i][3] ])
                 ELSE upto(i-1)
    IN  upto(Len(play_text))

-----------------------------------------------------------------------------
(* JSON values of an inbound frame.  Every value is one record, so that    *)
(* dicts of mixed content stay comparable: kind says which field counts.   *)

VDict(d) == [ kind |-> "dict", dict |-> d, text |-> << >>, str |-> "", int |-> 0 ]
VText(t) == [ kind |-> "text", dict |-> << >>, text |-> t, str |-> "", int |-> 0 ]
VStr(x) == [ kind |-> "str", dict |-> << >>, text |-> << >>, str |-> x, int |-> 0 ]
VInt(n) == [ kind |-> "int", dict |-> << >>, text |-> << >>, str |-> "", int |-> n ]

\* a dict key, held as its parts between underscores: "play_text_1" is
\* <<"play", "text", "1">>
PlayKey(n) == << "play", StrOf(n) >>
PlayTextKey(n) == << "play", "text", StrOf(n) >>
ClockKey(n) == << "clock", StrOf(n) >>
PeriodKey(n) == << "period", StrOf(n) >>

\* the play_info the code expects under a play_<id> key
PlayInfo(n, text, clock, period) ==
    VDict(<< << PlayTextKey(n), VText(text) >>,
             << ClockKey(n), VStr(clock) >>,
             << PeriodKey(n), VInt(period) >> >>)

\* a message object of a frame (`keys` are the keys it has) and a frame
Item(keys, channel, data) == [ keys |-> keys, channel |-> channel, data |-> data ]
Frame(message) == [ json |-> TRUE, message |-> message ]

\* a frame as received on websocket ws (0: handed to the handler directly)
Received(raw_message, ws) ==
    [ json |-> raw_message.json, message |-> raw_message.message, ws |-> ws ]

\* what a handler has done so far: the scoreboards, the two histories, the
\* aggregator calls it made and the exception it raised ("none")
Start(away, home, hist, before) ==
    [ away |-> away, home |-> home, held |-> hist, seen |-> before,
      calls |-> << >>, err |-> "none" ]

NoPlay == Play(0, << >>, "", 0)

\* the record of one aggregator call: what it was given and what it did
Call(op, player_name, team_shortname, team, idx) ==
    [ op |-> op, player_name |-> player_name, team_shortname |-> team_shortname,
      was |-> {}, team |-> team, idx |-> idx, play |-> NoPlay, ret |-> NoPlay,
      again |-> FALSE, present |-> FALSE, new |-> FALSE, matched |-> FALSE, hits |-> {},
      deltas |-> {}, before |-> << None, None >>, after |-> << None, None >> ]

\* player.add_play(...) on player idx of a scoreboard, recorded
CallAddPlay(st, team, idx, p) ==
    LET sb == IF team = "away" THEN st.away ELSE st.home
        self == sb.players[idx]
        r == add_play(self, p.play_id, p.play_text, p.clock, p.period)
        sb2 == [ sb EXCEPT !.players[idx] = r.player ]
        c == [ Call("add_play", self.name, None, team, idx) EXCEPT
                 !.play = p, !.ret = r.ret, !.new = r.new, !.matched = r.matched,
                 !.again = << team, idx, p >> \in st.seen,
                 !.present = \E k \in 1..Len(self.plays) : self.plays[k] = p,
                 !.hits = { f \in DOMAIN self : f # "plays" /\ r.player[f] # self[f] },
                 !.deltas = { << f, r.player[f] - self[f] >> :
                                f \in { g \in DOMAIN self \ { "plays", "name", "position",
                                                              "minutes_played" } :
                                          r.player[g] # self[g] } } ]
    IN  [ st EXCEPT !.away = IF team = "away" THEN sb2 ELSE st.away,
                    !.home = IF team = "home" THEN sb2 ELSE st.home,
                    !.seen = st.seen \cup { << team, idx, p >> },
                    !.calls = Append(st.calls, c) ]

\* self._get_player(...), recorded
CallGetPlayer(st, player_name, team_shortname) ==
    LET g == _get_player(st.away, st.home, player_name, team_shortname)
        c == [ Call("_get_player", player_name, team_shortname, g.team, g.idx) EXCEPT
                 !.was = { t \in {"away", "home"} : team_shortname \in st.held[t] },
                 !.before = << st.away.team_shortname, st.home.team_shortname >>,
                 !.after = << g.away.team_shortname, g.home.team_shortname >> ]
    IN  [ st EXCEPT !.away = g.away, !.home = g.home,
                    !.held = [ t \in {"away", "home"} |->
                                 st.held[t] \cup ({ (IF t = "away" THEN g.away
                                                     ELSE g.home).team_shortname } \ { None }) ],
                    !.calls = Append(st.calls, c) ]

\* one pass of the inner loop of _process_play_data: _get_player, then
\* add_play on the player it returned
ApplyMatch(st, play_id, play_text, clock, period, m) ==
    LET st1 == CallGetPlayer(st, m.player_name, m.team_shortname)
        got == st1.calls[Len(st1.calls)]
    IN  IF got.idx = 0 THEN st1
        ELSE CallAddPlay(st1, got.team, got.idx, Play(play_id, play_text, clock, period))

RECURSIVE ApplyMatches(_, _, _, _, _, _)
ApplyMatches(st, play_id, play_text, clock, period, ms) ==
    IF ms = << >> THEN st
    ELSE ApplyMatches(ApplyMatch(st, play_id, play_text, clock, period, Head(ms)),
                      play_id, play_text, clock, period, Tail(ms))

RECURSIVE ApplyTexts(_, _, _, _, _)
ApplyTexts(st, play_id, plays_text, clock, period) ==
    IF plays_text = << >> THEN st
    ELSE ApplyTexts(ApplyMatches(st, play_id, Head(plays_text), clock, period,
                                 _parse_plays(Head(plays_text))),
                    play_id, Tail(plays_text), clock, period)

\* LiveStreamStats._process_play_data
_process_play_data(st, play_key, play_info) ==
    IF ~IsDecimal(play_key[2]) THEN [ st EXCEPT !.err = "ValueError" ]
    ELSE IF play_info.kind # "dict" THEN [ st EXCEPT !.err = "AttributeError" ]
    ELSE LET play_id == IntOf(play_key[2])
             plays_text == Split(DictGet(play_info.dict, PlayTextKey(play_id), VText(<< >>)).text)
             clock == DictGet(play_info.dict, ClockKey(play_id), VStr("")).str
             period == DictGet(play_info.dict, PeriodKey(play_id), VInt(0)).int
         IN  ApplyTexts(st, play_id, plays_text, clock, period)

\* the channel "/{sports_code}/box_score/{game_id}", held as its parts
Subscription(sports_code, game_id) == << sports_code, "box_score", StrOf(game_id) >>

\* LiveStreamStats._is_relevant_message
_is_relevant_message(item, sports_code, game_id) ==
    /\ "channel" \in item.keys
    /\ item.channel = Subscription(sports_code, game_id)
    /\ "data" \in item.keys
    /\ "chart" \notin item.keys
    /\ "shot_chart" \notin item.keys

\* LiveStreamStats._extract_play_data: the entries whose key starts with "play_"
_extract_play_data(item) ==
    LET d == item.data.dict
        RECURSIVE keep(_)
        keep(i) ==
            IF i > Len(d) THEN << >>
            ELSE IF d[i][1][1] = "play" /\ Len(d[i][1]) >= 2
                 THEN << d[i] >> \o keep(i+1)
                 ELSE keep(i+1)
    IN  keep(1)

RECURSIVE ProcessEntries(_, _)
ProcessEntries(st, play_data) ==
    IF play_data = << >> \/ st.err # "none" THEN st
    ELSE ProcessEntries(_process_play_data(st, Head(play_data)[1], Head(play_data)[2]),
                        Tail(play_data))

\* the body of the loop over the items of one decoded frame
RECURSIVE ProcessItems(_, _, _, _)
ProcessItems(st, message, sports_code, game_id) ==
    IF message = << >> \/ st.err # "none" THEN st
    ELSE LET item == Head(message)
         IN  IF ~_is_relevant_message(item, sports_code, game_id)
             THEN ProcessItems(st, Tail(message), sports_code, game_id)
             ELSE IF item.data.kind # "dict"
             THEN [ st EXCEPT !.err = "AttributeError" ]
             ELSE ProcessItems(ProcessEntries(st, _extract_play_data(item)),
                               Tail(message), sports_code, game_id)

\* one pass of the loop of _process_messages over a received frame:
\* json.loads, then the items
ProcessRawMessage(st, raw_message, sports_code, game_id) ==
    IF ~raw_message.json THEN [ st EXCEPT !.err = "JSONDecodeError" ]
    ELSE ProcessItems(st, raw_message.message, sports_code, game_id)

-----------------------------------------------------------------------------
(* Inputs.                                                                 *)

\* rebound.py: the choices of --sports-code; the game ids tried
SportsCodes == { "MBB", "WBB" }
GameIds == { 1 }

PlayIds == 1..MaxPlayId

\* the counters the box score shows when the session starts:
\* <<field_goals_made, field_goals_attempted, points, fouls>>
BoxScores == { << 0, 0, 0, 0 >>, << 1, 2, 2, 1 >> }

TxtMadeLayup(n, t) == << Ref(n, t), W("made"), W("Layup") >>
TxtFoul(n, t) == << Ref(n, t), W("Foul") >>
TxtTurnover(n, t) == << Ref(n, t), W("Turnover") >>
\* "Foul on Doe(ABC)": the words before the reference run into the name
TxtFoulOn(n, t) == << W("Foul"), W("on"), Ref(n, t) >>
\* a team-level event, no player named
TxtTeamRebound == << W("Team"), W("rebound") >>
\* a made three-pointer
Txt3ptMade(n, t) == << Ref(n, t), W("3pt"), W("Jump Shot"), W("made") >>

\* a made free throw
TxtFreeThrowMade(n, t) == << Ref(n, t), W("Free Throw"), W("made") >>

\* raw play texts a frame may carry
RawTexts ==
    { TxtMadeLayup("Doe", "ABC"), TxtFoul("Doe", "XYZ"),
      TxtFoul("Smith", "ABC"), TxtFoul("Smith", "XYZ"),
      TxtTurnover("Roe", "ABC"), TxtMadeLayup("Roe", "XYZ"),
      TxtFoul("Poe", "ABC"),
      TxtMadeLayup("Doe", "ABC") \o << Comma >> \o TxtFoul("Doe", "ABC"),
      TxtFoulOn("Doe", "ABC"),
      TxtTeamRebound,
      TxtFoul("Poe", "ABC") \o << Comma >> \o TxtFoul("Doe", "ABC") }

\* the tuples add_play is called with directly: the first, tuples that
\* differ from it in one component, and plays of other kinds
PlayTuples ==
    { Play(1, TxtMadeLayup("Doe", "ABC"), "12:00", 1),
      Play(1, TxtFoul("Doe", "ABC"), "12:00", 1),
      Play(1, TxtMadeLayup("Doe", "ABC"), "11:30", 1),
      Play(1, TxtMadeLayup("Doe", "ABC"), "12:00", 2),
      Play(2, TxtMadeLayup("Doe", "ABC"), "12:00", 1),
      Play(2, TxtTeamRebound, "12:00", 1),
      Play(2, Txt3ptMade("Doe", "ABC"), "12:00", 1),
      Play(1, TxtFreeThrowMade("Doe", "ABC"), "12:00", 1) }

-----------------------------------------------------------------------------
(* LiveStreamStats.__init__: the session and the two scoreboards.          *)

AwayRoster(stats) ==
    << Player(<< "Doe" >>, 10, stats), Player(<< "Smith" >>, 11, << 0, 0, 0, 0 >>) >>
HomeRoster(stats) ==
    << Player(<< "Smith" >>, 20, stats), Player(<< "Roe" >>, 21, << 0, 0, 0, 0 >>) >>

\* stream.py _get_scoreboards: index 0 is the away team, the other the home team
_get_scoreboards(stats) ==
    [ away |-> Scoreboard("Away U", AwayRoster(stats)),
      home |-> Scoreboard("Home U", HomeRoster(stats)) ]

\* the box-score response: `ok` is FALSE when fetch_url returned None;
\* headers is a dict, text the box score the page shows
Response(ok, headers, text) == [ ok |-> ok, headers |-> headers, text |-> text ]

\* a cookie of the Set-Cookie value: "name=value" and what follows it, ";"
\* or "," (requests joins several Set-Cookie headers with ", ") or nothing
Cookie(name, value, sep) == << name, value, sep >>

\* the first cookie at or after k that ends in ";", 0 if there is none
SemiFrom(cookies, k) ==
    LET at == { j \in k..Len(cookies) : cookies[j][3] = ";" }
    IN  IF at = {} THEN 0 ELSE CHOOSE j \in at : \A i \in at : j <= i

\* the group ([^;]+) followed by ";" when the "=" before it is the one of
\* cookie k: the value of cookie k and everything up to the next ";"; << >>
\* when the group cannot match (nothing before the ";", or no ";" at all)
Capture(cookies, k) ==
    LET j == SemiFrom(cookies, k)
        RECURSIVE rest(_)
        rest(i) == IF i > j THEN << >>
                   ELSE << cookies[i][1], cookies[i][2] >> \o rest(i + 1)
    IN  IF j = 0 \/ (j = k /\ cookies[k][2] = "") THEN << >>
        ELSE << cookies[k][2] >> \o rest(k + 1)

\* re.search(r"(?:livestream_user_id=([^;]+);)?(?:.*?_stats_session=([^;]+);)?", value):
\* the pattern matches at position 0 whatever the value is; group 1 only if
\* the value begins with the user cookie, group 2 at the first later place
\* where "_stats_session=" (also as the end of a longer name) starts a value
\* that is closed by ";".  An unmatched group is << >> here, None in Python.
ReSearchCookie(cookies) ==
    LET g1 == IF Len(cookies) >= 1 /\ cookies[1][1] = "livestream_user_id"
              THEN Capture(cookies, 1) ELSE << >>
        e1 == IF g1 = << >> THEN 0 ELSE SemiFrom(cookies, 1)
        at == { k \in (e1 + 1)..Len(cookies) :
                  /\ cookies[k][1] \in { "_stats_session", "x_stats_session" }
                  /\ Capture(cookies, k) # << >> }
        g2 == IF at = {} THEN << >>
              ELSE Capture(cookies, CHOOSE k \in at : \A i \in at : k <= i)
    IN  [ group1 |-> g1, group2 |-> g2 ]

\* LiveStreamStats.__init__: the exception it raises ("none") and the
\* attributes it has assigned when it returns
__init__(sports_code, game_id, resp) ==
    IF ~resp.ok THEN [ err |-> "AttributeError" ]
    ELSE IF ~DictHas(resp.headers, "Set-Cookie") THEN [ err |-> "KeyError" ]
    ELSE LET match == ReSearchCookie(DictGet(resp.headers, "Set-Cookie", << >>))
             livestream_user_id == match.group1
             stats_session == match.group2
             boards == _get_scoreboards(resp.text)
         IN  [ err |-> "none",
               _sports_code |-> sports_code,
               _game_id |-> game_id,
               away_scoreboard |-> boards.away,
               home_scoreboard |-> boards.home,
               _websocket_message_ext |->
                   [ livestream_token |-> << >>, livestream_user_id |-> livestream_user_id ],
               _session_cookie |->
                   [ livestream_user_id |-> livestream_user_id,
                     _stats_session |-> stats_session ] ]

\* a response that sets both cookies
GoodResponse(stats) ==
    Response(TRUE,
             << << "Set-Cookie", << Cookie("livestream_user_id", "v", ";"),
                                    Cookie("_stats_session", "v", ";") >> >> >>,
             stats)

InitSession(codes) ==
    /\ _sports_code \in codes
    /\ _game_id \in GameIds
    /\ \E stats \in BoxScores :
          /\ response = GoodResponse(stats)
          /\ snapshot = _get_scoreboards(stats)
          /\ away_scoreboard = snapshot.away
          /\ home_scoreboard = snapshot.home
    /\ \E self \in { __init__(_sports_code, _game_id, response) } :
          /\ self.err = "none"
          /\ _websocket_message_ext = self._websocket_message_ext
          /\ _session_cookie = self._session_cookie
    /\ held = [ t \in {"away", "home"} |-> {} ]
    /\ seen = {}
    /\ _client_id = NoAttr
    /\ _id_counter = [ c \in {"BaseMessage"} |-> 0 ]
    /\ wire = << >>
    /\ inflight = {}
    /\ sockets = << >>
    /\ tasks = {}
    /\ conn = 0
    /\ error = "none"
    /\ lastFrame = Received(Frame(<< >>), 0)
    /\ calls = << >>
    /\ nframes = 0
    /\ ncalls = 0

-----------------------------------------------------------------------------
(* BootSpec: LiveStreamStats(sports_code, game_id) called once, with the   *)
(* response its fetch gets drawn from Responses.                           *)

CookieNames == { "livestream_user_id", "_stats_session", "x_stats_session", "path" }

\* the cookies that end in one of `seps`
Cookies(seps) ==
    { Cookie(name, value, sep) : name \in CookieNames, value \in { "", "v" }, sep \in seps }

\* n cookies, each followed by ";" or ","
RECURSIVE CookieSeqs(_)
CookieSeqs(n) ==
    IF n = 0 THEN { << >> }
    ELSE { << c >> \o r : c \in Cookies({ ";", "," }), r \in CookieSeqs(n - 1) }

\* the Set-Cookie values: empty, or up to MaxCookies cookies of which the
\* last is followed by ";" or by nothing
SetCookies ==
    { << >> } \cup
    UNION { { r \o << c >> : r \in CookieSeqs(n - 1), c \in Cookies({ ";", "" }) } :
            n \in 1..MaxCookies }

\* what the fetch may give: nothing (fetch_url returned None), a response
\* without the header, or one with any of the Set-Cookie values
Responses ==
    { Response(FALSE, << >>, stats) : stats \in BoxScores }
    \cup { Response(TRUE, << >>, stats) : stats \in BoxScores }
    \cup { Response(TRUE, << << "Set-Cookie", c >> >>, stats) :
             c \in SetCookies, stats \in BoxScores }

BootInit ==
    /\ pc = "boot"
    /\ _sports_code \in SportsCodes
    /\ _game_id \in GameIds
    /\ response \in Responses
    /\ snapshot = NoAttr
    /\ away_scoreboard = NoAttr
    /\ home_scoreboard = NoAttr
    /\ _websocket_message_ext = NoAttr
    /\ _session_cookie = NoAttr
    /\ held = [ t \in {"away", "home"} |-> {} ]
    /\ seen = {}
    /\ _client_id = NoAttr
    /\ _id_counter = [ c \in {"BaseMessage"} |-> 0 ]
    /\ wire = << >>
    /\ inflight = {}
    /\ sockets = << >>
    /\ tasks = {}
    /\ conn = 0
    /\ error = "none"
    /\ lastFrame = Received(Frame(<< >>), 0)
    /\ calls = << >>
    /\ nframes = 0
    /\ ncalls = 0

\* LiveStreamStats(sports_code, game_id)
Bootstrap ==
    /\ pc = "boot"
    /\ \E self \in { __init__(_sports_code, _game_id, response) } :
          IF self.err = "none"
          THEN /\ pc' = "constructed"
               /\ away_scoreboard' = self.away_scoreboard
               /\ home_scoreboard' = self.home_scoreboard
               /\ snapshot' = [ away |-> self.away_scoreboard, home |-> self.home_scoreboard ]
               /\ _websocket_message_ext' = self._websocket_message_ext
               /\ _session_cookie' = self._session_cookie
               /\ UNCHANGED error
          ELSE /\ pc' = "crashed"
               /\ error' = self.err
               /\ UNCHANGED << away_scoreboard, home_scoreboard, snapshot,
                               _websocket_message_ext, _session_cookie >>
    /\ UNCHANGED << _sports_code, _game_id, response, held, seen, _client_id, _id_counter,
                    inflight, conn, sockets, tasks, wire, lastFrame, calls, nframes, ncalls >>

BootNext == Bootstrap

BootSpec == BootInit /\ [][BootNext]_vars

-----------------------------------------------------------------------------
(* AggSpec: the aggregator called directly.                                *)

AggInit == InitSession({"MBB"}) /\ pc = "aggregator"

Commit(st) ==
    /\ away_scoreboard' = st.away
    /\ home_scoreboard' = st.home
    /\ held' = st.held
    /\ seen' = st.seen
    /\ calls' = st.calls

\* _process_play_data(play_key, play_info) with a well-formed entry
ProcessPlayData(play_id, text, clock, period) ==
    /\ pc = "aggregator"
    /\ ncalls < MaxCalls
    /\ ncalls' = ncalls + 1
    /\ \E st \in { _process_play_data(Start(away_scoreboard, home_scoreboard, held, seen),
                                       PlayKey(play_id),
                                       PlayInfo(play_id, text, clock, period)) } :
          Commit(st)
    /\ lastFrame' = Received(Frame(<< Item({"channel", "data"},
                                           Subscription(_sports_code, _game_id),
                                           VDict(<< << PlayKey(play_id),
                                                       PlayInfo(play_id, text, clock, period) >> >>)) >>),
                             0)
    /\ UNCHANGED << sessionVars, protoVars, nframes >>

\* player.add_play(play_id, play_text, clock, period) on a player of a scoreboard
AddPlay(team, idx, p) ==
    /\ pc = "aggregator"
    /\ ncalls < MaxCalls
    /\ ncalls' = ncalls + 1
    /\ \E st \in { CallAddPlay(Start(away_scoreboard, home_scoreboard, held, seen),
                               team, idx, p) } :
          Commit(st)
    /\ lastFrame' = Received(Frame(<< >>), 0)
    /\ UNCHANGED << sessionVars, protoVars, nframes >>

AggNext ==
    \/ \E play_id \in PlayIds, text \in RawTexts :
          ProcessPlayData(play_id, text, "12:00", 1)
    \/ \E team \in {"away", "home"}, p \in PlayTuples : AddPlay(team, 1, p)

AggSpec == AggInit /\ [][AggNext]_vars

-----------------------------------------------------------------------------
(* models.py: the protocol messages.                                       *)

MessageClasses == { "HandshakeMessage", "ConnectMessage", "SubscribeMessage" }

\* the channel each subclass sets in its __post_init__
ChannelOf(cls) ==
    CASE cls = "HandshakeMessage" -> "/meta/handshake"
      [] cls = "ConnectMessage" -> "/meta/connect"
      [] cls = "SubscribeMessage" -> "/meta/subscribe"

\* the attribute lookup cls._id_counter: the class's own attribute if it
\* has one, else the one it inherits from BaseMessage
ClassCounter(counters, cls) ==
    IF cls \in DOMAIN counters THEN counters[cls] ELSE counters["BaseMessage"]

\* BaseMessage.__post_init__ run for an instance of cls: the id it gets and
\* the class attributes afterwards (self.__class__._id_counter += 1 assigns
\* the attribute on self.__class__)
__post_init__(counters, cls) ==
    [ id |-> StrOf(ClassCounter(counters, cls)),
      counters |-> [ c \in DOMAIN counters \cup { cls } |->
                       IF c = cls THEN ClassCounter(counters, cls) + 1 ELSE counters[c] ] ]

\* a constructed message as the model records it: `ws` is the websocket it
\* was handed to (0: none), `sent` whether send() completed, `by` who built it
Message(cls, id, clientId, ext, ws, sent, by) ==
    [ cls |-> cls, channel |-> ChannelOf(cls), id |-> id, clientId |-> clientId,
      ext |-> ext, ws |-> ws, sent |-> sent, by |-> by ]

-----------------------------------------------------------------------------
(* MsgSpec: messages constructed in any order.                             *)

MsgInit == InitSession({"MBB"}) /\ pc = "messages"

Construct(cls) ==
    /\ pc = "messages"
    /\ Len(wire) < MaxMsgs
    /\ \E m \in { __post_init__(_id_counter, cls) } :
          /\ _id_counter' = m.counters
          /\ wire' = Append(wire, Message(cls, m.id,
                                          IF cls = "HandshakeMessage" THEN None ELSE "c1",
                                          _websocket_message_ext, 0, FALSE, "caller"))
    /\ UNCHANGED << sessionVars, inflight, aggVars, _client_id, pc, conn, sockets, tasks, error,
                    lastFrame, calls, nframes, ncalls >>

MsgNext == \E cls \in MessageClasses : Construct(cls)

MsgSpec == MsgInit /\ [][MsgNext]_vars

-----------------------------------------------------------------------------
(* Inbound frames of the stream.                                           *)

\* a play of three sub-events: Smith of the home team XYZ (the away team ABC
\* has a Smith too), Doe of ABC, Roe of XYZ
TxtThreeFouls ==
    TxtFoul("Smith", "XYZ") \o << Comma >> \o TxtFoul("Doe", "ABC")
        \o << Comma >> \o TxtFoul("Roe", "XYZ")

\* the frames the server may push for one session
Frames(sports_code, game_id) ==
    LET sub == Subscription(sports_code, game_id)
        doe == << << PlayKey(1), PlayInfo(1, TxtMadeLayup("Doe", "ABC"), "12:00", 1) >> >>
        smith == << << PlayKey(2), PlayInfo(2, TxtFoul("Smith", "XYZ"), "11:30", 1) >> >>
    IN  { \* a play of the subscribed game
          Frame(<< Item({"channel", "data"}, sub, VDict(doe)) >>),
          Frame(<< Item({"channel", "data"}, sub, VDict(smith)) >>),
          Frame(<< Item({"channel", "data"}, sub,
                        VDict(<< << PlayKey(2), PlayInfo(2, TxtThreeFouls, "11:00", 1) >> >>)) >>),
          \* the same payload on the channel of another game
          Frame(<< Item({"channel", "data"}, << sports_code, "box_score", StrOf(game_id + 1) >>,
                        VDict(doe)) >>),
          \* the server's reply to a keep-alive: no payload
          Frame(<< Item({"channel"}, << "meta", "connect" >>, VDict(<< >>)) >>),
          \* a chart key beside channel and data in the message object
          Frame(<< Item({"channel", "data", "chart"}, sub, VDict(doe)) >>),
          \* a shot_chart key inside the payload, with a play beside it
          Frame(<< Item({"channel", "data"}, sub,
                        VDict(<< << << "shot", "chart" >>, VDict(<< >>) >> >> \o doe)) >>),
          \* the sibling fields beside the play key in the payload itself
          Frame(<< Item({"channel", "data"}, sub,
                        VDict(<< << PlayTextKey(1), VText(TxtFoul("Roe", "XYZ")) >>,
                                 << ClockKey(1), VStr("12:00") >>,
                                 << PeriodKey(1), VInt(1) >> >>)) >>),
          \* a frame that is not JSON
          [ json |-> FALSE, message |-> << >> ] }

-----------------------------------------------------------------------------
(* Spec: LiveStreamStats.stream() and the two tasks it creates.            *)

\* a websocket the connect iterator yielded: its state, the handshake
\* acknowledgment received on it, the Cookie header it was opened with
Socket(state, ack, cookie) == [ state |-> state, ack |-> ack, cookie |-> cookie ]
Task(kind, ws) == [ kind |-> kind, ws |-> ws ]

IsOpen(ws) == sockets[ws].state = "open"

\* the clientId the server assigns in the acknowledgment on websocket ws
ServerClientId(ws) == StrOf(ws)

Init == InitSession(SportsCodes) /\ pc = "iterate"

\* a variant of Iterate that builds the scoreboards anew from the box score
\* for every websocket
IterateRefetch ==
    /\ pc = "iterate"
    /\ conn < MaxConn
    /\ conn' = conn + 1
    /\ sockets' = Append(sockets, Socket("open", "none", _session_cookie))
    /\ pc' = "handshake"
    /\ away_scoreboard' = snapshot.away
    /\ home_scoreboard' = snapshot.home
    /\ UNCHANGED << sessionVars, inflight, held, seen, _client_id, _id_counter, tasks, error, wire,
                    lastFrame, calls, nframes, ncalls >>

\* `async for websocket in websockets.connect(...)`: the next websocket
Iterate ==
    /\ pc = "iterate"
    /\ conn < MaxConn
    /\ conn' = conn + 1
    /\ sockets' = Append(sockets, Socket("open", "none", _session_cookie))
    /\ pc' = "handshake"
    /\ UNCHANGED << sessionVars, inflight, aggVars, _client_id, _id_counter, tasks, error, wire,
                    lastFrame, calls, nframes, ncalls >>

\* the server or the network closes the current websocket, cleanly or not
Close ==
    /\ pc \notin { "iterate", "crashed" }
    /\ conn < MaxConn
    /\ IsOpen(conn)
    /\ \E how \in { "closed_ok", "closed_error" } :
          sockets' = [ sockets EXCEPT ![conn].state = how ]
    /\ UNCHANGED << sessionVars, inflight, aggVars, _client_id, _id_counter, pc, conn, tasks, error,
                    wire, lastFrame, calls, nframes, ncalls >>

\* construct a message of cls and send it on websocket ws
Build(cls, ws, by) ==
    \E m \in { __post_init__(_id_counter, cls) } :
       /\ _id_counter' = m.counters
       /\ wire' = Append(wire, Message(cls, m.id,
                                       IF cls = "HandshakeMessage" THEN None ELSE _client_id,
                                       _websocket_message_ext, ws, IsOpen(ws), by))

\* stream(): `await self._handshake(websocket)`
Handshake ==
    /\ pc = "handshake"
    /\ Build("HandshakeMessage", conn, "stream")
    /\ pc' = IF IsOpen(conn) THEN "recv" ELSE "iterate"
    /\ UNCHANGED << sessionVars, inflight, aggVars, _client_id, conn, sockets, tasks, error,
                    lastFrame, calls, nframes, ncalls >>

\* a variant of RecvAck that also stores the acknowledged clientId as the
\* livestream_token of the extension payload
RecvAckStoreToken ==
    /\ pc = "recv"
    /\ \/ /\ ~IsOpen(conn)
          /\ pc' = "iterate"
          /\ UNCHANGED << _client_id, sockets, error, _websocket_message_ext >>
       \/ /\ IsOpen(conn)
          /\ \E ack \in { "ok", "failed", "not_json", "no_successful" } :
                CASE ack = "ok" ->
                       /\ _client_id' = ServerClientId(conn)
                       /\ _websocket_message_ext' =
                             [ _websocket_message_ext EXCEPT
                                  !.livestream_token = << ServerClientId(conn) >> ]
                       /\ sockets' = [ sockets EXCEPT ![conn].ack = "ok" ]
                       /\ pc' = "connect"
                       /\ UNCHANGED error
                  [] ack = "failed" ->
                       /\ sockets' = [ sockets EXCEPT ![conn].ack = "failed" ]
                       /\ pc' = "connect"
                       /\ UNCHANGED << _client_id, error, _websocket_message_ext >>
                  [] OTHER ->
                       /\ pc' = "crashed"
                       /\ error' = IF ack = "not_json" THEN "JSONDecodeError" ELSE "KeyError"
                       /\ UNCHANGED << _client_id, sockets, _websocket_message_ext >>
    /\ UNCHANGED << _sports_code, _game_id, snapshot, response, _session_cookie,
                    inflight, aggVars, _id_counter, conn, tasks, wire,
                    lastFrame, calls, nframes, ncalls >>

\* stream(): `message = await websocket.recv()` up to the assignment of
\* _client_id; the acknowledgment is whatever the server chose to send
RecvAck ==
    /\ pc = "recv"
    /\ \/ /\ ~IsOpen(conn)
          /\ pc' = "iterate"
          /\ UNCHANGED << _client_id, sockets, error >>
       \/ /\ IsOpen(conn)
          /\ \E ack \in { "ok", "failed", "not_json", "no_successful" } :
                CASE ack = "ok" ->
                       /\ _client_id' = ServerClientId(conn)
                       /\ sockets' = [ sockets EXCEPT ![conn].ack = "ok" ]
                       /\ pc' = "connect"
                       /\ UNCHANGED error
                  [] ack = "failed" ->
                       /\ sockets' = [ sockets EXCEPT ![conn].ack = "failed" ]
                       /\ pc' = "connect"
                       /\ UNCHANGED << _client_id, error >>
                  [] OTHER ->
                       /\ pc' = "crashed"
                       /\ error' = IF ack = "not_json" THEN "JSONDecodeError" ELSE "KeyError"
                       /\ UNCHANGED << _client_id, sockets >>
    /\ UNCHANGED << sessionVars, inflight, aggVars, _id_counter, conn, tasks, wire,
                    lastFrame, calls, nframes, ncalls >>

\* stream(): `await self._connect(websocket)`
Connect ==
    /\ pc = "connect"
    /\ \/ /\ _client_id = NoAttr
          /\ pc' = "crashed"
          /\ error' = "AttributeError"
          /\ UNCHANGED << _id_counter, wire >>
       \/ /\ _client_id # NoAttr
          /\ Build("ConnectMessage", conn, "stream")
          /\ pc' = IF IsOpen(conn) THEN "subscribe" ELSE "iterate"
          /\ UNCHANGED error
    /\ UNCHANGED << sessionVars, inflight, aggVars, _client_id, conn, sockets, tasks,
                    lastFrame, calls, nframes, ncalls >>

\* stream(): `await self._subscribe(websocket)`, then the two create_task
\* calls and the start of gather
Subscribe ==
    /\ pc = "subscribe"
    /\ Build("SubscribeMessage", conn, "stream")
    /\ IF IsOpen(conn)
       THEN /\ pc' = "gather"
            /\ tasks' = tasks \cup { Task("refresh", conn), Task("process", conn) }
       ELSE /\ pc' = "iterate"
            /\ UNCHANGED tasks
    /\ UNCHANGED << sessionVars, inflight, aggVars, _client_id, conn, sockets, error,
                    lastFrame, calls, nframes, ncalls >>

\* the keep-alive messages that websocket ws has carried
KeepAlives(ws) ==
    Cardinality({ i \in 1..Len(wire) :
                    wire[i].by = "refresh" /\ wire[i].ws = ws /\ wire[i].sent })

\* an exception of task t reaches stream() if gather is awaiting t
Awaited(t) == pc = "gather" /\ t.ws = conn

\* a variant of Refresh whose keep-alive also fetches the box score again
\* and replaces the scoreboards
RefreshRefetch(t) ==
    /\ t \in tasks /\ t.kind = "refresh"
    /\ pc # "crashed"
    /\ IsOpen(t.ws) => KeepAlives(t.ws) < MaxKeepAlive
    /\ Build("ConnectMessage", t.ws, "refresh")
    /\ IF IsOpen(t.ws)
       THEN UNCHANGED << tasks, pc >>
       ELSE /\ tasks' = tasks \ { t }
            /\ pc' = IF Awaited(t) THEN "iterate" ELSE pc
    /\ away_scoreboard' = snapshot.away
    /\ home_scoreboard' = snapshot.home
    /\ UNCHANGED << sessionVars, inflight, held, seen, _client_id, conn, sockets, error,
                    lastFrame, calls, nframes, ncalls >>

\* _refresh_connection: one pass of its loop (the sleep, then _connect)
Refresh(t) ==
    /\ t \in tasks /\ t.kind = "refresh"
    /\ pc # "crashed"
    /\ IsOpen(t.ws) => KeepAlives(t.ws) < MaxKeepAlive
    /\ Build("ConnectMessage", t.ws, "refresh")
    /\ IF IsOpen(t.ws)
       THEN UNCHANGED << tasks, pc >>
       ELSE /\ tasks' = tasks \ { t }
            /\ pc' = IF Awaited(t) THEN "iterate" ELSE pc
    /\ UNCHANGED << sessionVars, inflight, aggVars, _client_id, conn, sockets, error,
                    lastFrame, calls, nframes, ncalls >>

\* _process_messages: one frame received and handled
Process(t) ==
    /\ t \in tasks /\ t.kind = "process"
    /\ pc # "crashed"
    /\ IsOpen(t.ws)
    /\ nframes < MaxFrames
    /\ nframes' = nframes + 1
    /\ \E raw_message \in Frames(_sports_code, _game_id) :
       \E st \in { ProcessRawMessage(Start(away_scoreboard, home_scoreboard, held, seen),
                                     raw_message, _sports_code, _game_id) } :
          /\ lastFrame' = Received(raw_message, t.ws)
          /\ Commit(st)
          /\ IF st.err = "none"
             THEN UNCHANGED << tasks, pc, error >>
             ELSE /\ tasks' = tasks \ { t }
                  /\ pc' = IF Awaited(t) THEN "crashed" ELSE pc
                  /\ error' = IF Awaited(t) THEN st.err ELSE error
    /\ UNCHANGED << sessionVars, inflight, _client_id, _id_counter, conn, sockets, wire, ncalls >>

\* _process_messages on a closed websocket: after an unclean close the
\* iteration raises ConnectionClosedError; after a clean close it just ends
\* and `while True` starts it again
ProcessClosed(t) ==
    /\ t \in tasks /\ t.kind = "process"
    /\ pc # "crashed"
    /\ ~IsOpen(t.ws)
    /\ IF sockets[t.ws].state = "closed_error"
       THEN /\ tasks' = tasks \ { t }
            /\ pc' = IF Awaited(t) THEN "iterate" ELSE pc
       ELSE UNCHANGED << tasks, pc >>
    /\ UNCHANGED << sessionVars, inflight, aggVars, _client_id, _id_counter, conn, sockets, error,
                    wire, lastFrame, calls, nframes, ncalls >>

Stream == Iterate \/ Handshake \/ RecvAck \/ Connect \/ Subscribe

Next ==
    \/ Stream
    \/ Close
    \/ \E ws \in 1..MaxConn : Refresh(Task("refresh", ws))
    \/ \E ws \in 1..MaxConn : Process(Task("process", ws))
    \/ \E ws \in 1..MaxConn : ProcessClosed(Task("process", ws))

Spec == Init /\ [][Next]_vars

\* asyncio runs every task that is ready: stream() itself and each task it
\* created get their turn
FairSpec ==
    /\ Spec
    /\ WF_vars(Stream)
    /\ \A ws \in 1..MaxConn :
          /\ WF_vars(Refresh(Task("refresh", ws)))
          /\ WF_vars(ProcessClosed(Task("process", ws)))

-----------------------------------------------------------------------------
(* SendSpec: stream() and the keep-alive tasks with every send in two      *)
(* steps, the call of websocket.send(...) and the completion of its await. *)
(* Inbound frames are not received here.                                   *)

\* keep-alive messages constructed for one open websocket in SendSpec
MaxSendKeepAlive == 2

SendInit == InitSession({"MBB"}) /\ pc = "iterate"

\* where stream() stands when it sends a message of cls, and where it
\* stands once that send has completed
SetupStage(cls) ==
    CASE cls = "HandshakeMessage" -> "handshake"
      [] cls = "ConnectMessage" -> "connect"
      [] cls = "SubscribeMessage" -> "subscribe"
AfterStage(cls) ==
    CASE cls = "HandshakeMessage" -> "recv"
      [] cls = "ConnectMessage" -> "subscribe"
      [] cls = "SubscribeMessage" -> "gather"

\* _handshake/_connect/_subscribe up to their return: the message is
\* constructed and websocket.send(...) is called; the send is in progress
BeginSend(cls, ws, by) ==
    \E m \in { __post_init__(_id_counter, cls) } :
       /\ _id_counter' = m.counters
       /\ wire' = Append(wire, Message(cls, m.id,
                                       IF cls = "HandshakeMessage" THEN None ELSE _client_id,
                                       _websocket_message_ext, ws, FALSE, by))
       /\ inflight' = inflight \cup { Len(wire) + 1 }

\* the sends in progress on websocket ws that `by` started
Sending(ws, by) == { i \in inflight : wire[i].ws = ws /\ wire[i].by = by }

\* a variant of StreamSend that does not await the send it started
StreamSendNoAwait(cls) ==
    /\ pc = SetupStage(cls)
    /\ IF cls # "HandshakeMessage" /\ _client_id = NoAttr
       THEN /\ pc' = "crashed"
            /\ error' = "AttributeError"
            /\ UNCHANGED << _id_counter, wire, inflight, tasks >>
       ELSE /\ BeginSend(cls, conn, "stream")
            /\ pc' = AfterStage(cls)
            /\ tasks' = IF cls = "SubscribeMessage"
                        THEN tasks \cup { Task("refresh", conn), Task("process", conn) }
                        ELSE tasks
            /\ UNCHANGED error
    /\ UNCHANGED << sessionVars, aggVars, _client_id, conn, sockets,
                    lastFrame, calls, nframes, ncalls >>

\* stream(): `await self._handshake(websocket)` and the like, up to the await
StreamSend(cls) ==
    /\ pc = SetupStage(cls)
    /\ IF cls # "HandshakeMessage" /\ _client_id = NoAttr
       THEN /\ pc' = "crashed"
            /\ error' = "AttributeError"
            /\ UNCHANGED << _id_counter, wire, inflight, tasks >>
       ELSE /\ BeginSend(cls, conn, "stream")
            /\ pc' = "sending"
            /\ UNCHANGED << error, tasks >>
    /\ UNCHANGED << sessionVars, aggVars, _client_id, conn, sockets,
                    lastFrame, calls, nframes, ncalls >>

\* stream(): the awaited send completes, or raises ConnectionClosed; after
\* the Subscribe the two tasks are created and gathered
StreamSent ==
    /\ pc = "sending"
    /\ \E i \in Sending(conn, "stream") :
          /\ inflight' = inflight \ { i }
          /\ IF IsOpen(conn)
             THEN /\ wire' = [ wire EXCEPT ![i].sent = TRUE ]
                  /\ pc' = AfterStage(wire[i].cls)
                  /\ tasks' = IF wire[i].cls = "SubscribeMessage"
                              THEN tasks \cup { Task("refresh", conn), Task("process", conn) }
                              ELSE tasks
             ELSE /\ pc' = "iterate"
                  /\ UNCHANGED << wire, tasks >>
    /\ UNCHANGED << sessionVars, aggVars, _client_id, _id_counter, conn, sockets, error,
                    lastFrame, calls, nframes, ncalls >>

\* _refresh_connection: the sleep is over and _connect is called
RefreshSend(t) ==
    /\ t \in tasks /\ t.kind = "refresh"
    /\ pc # "crashed"
    /\ Sending(t.ws, "refresh") = {}
    /\ IsOpen(t.ws) =>
          Cardinality({ i \in 1..Len(wire) : wire[i].by = "refresh" /\ wire[i].ws = t.ws })
             < MaxSendKeepAlive
    /\ BeginSend("ConnectMessage", t.ws, "refresh")
    /\ UNCHANGED << sessionVars, aggVars, _client_id, pc, conn, sockets, tasks, error,
                    lastFrame, calls, nframes, ncalls >>

\* _refresh_connection: the awaited send completes, or raises ConnectionClosed
\* and ends the task
RefreshSent(t) ==
    /\ t \in tasks /\ t.kind = "refresh"
    /\ pc # "crashed"
    /\ \E i \in Sending(t.ws, "refresh") :
          /\ inflight' = inflight \ { i }
          /\ IF IsOpen(t.ws)
             THEN /\ wire' = [ wire EXCEPT ![i].sent = TRUE ]
                  /\ UNCHANGED << tasks, pc >>
             ELSE /\ tasks' = tasks \ { t }
                  /\ pc' = IF Awaited(t) THEN "iterate" ELSE pc
                  /\ UNCHANGED wire
    /\ UNCHANGED << sessionVars, aggVars, _client_id, _id_counter, conn, sockets, error,
                    lastFrame, calls, nframes, ncalls >>

SendNext ==
    \/ Iterate
    \/ Close
    \/ RecvAck
    \/ \E cls \in MessageClasses : StreamSend(cls)
    \/ StreamSent
    \/ \E ws \in 1..MaxConn : RefreshSend(Task("refresh", ws))
    \/ \E ws \in 1..MaxConn : RefreshSent(Task("refresh", ws))
    \/ \E ws \in 1..MaxConn : ProcessClosed(Task("process", ws))

SendSpec == SendInit /\ [][SendNext]_vars

-----------------------------------------------------------------------------
(* Properties.                                                             *)

PlayerAt(team, idx) ==
    (IF team = "away" THEN away_scoreboard ELSE home_scoreboard).players[idx]

AddPlayCalls == { i \in 1..Len(calls) : calls[i].op = "add_play" }
GetPlayerCalls == { i \in 1..Len(calls) : calls[i].op = "_get_player" }

\* how many Plays of the sequence carry exactly this tuple
Copies(plays, p) == Cardinality({ k \in 1..Len(plays) : plays[k] = p })

\* C1 (AggSpec): an add_play call whose (play_id, play_text, clock, period)
\* tuple was already passed to add_play for the same player leaves exactly
\* one Play with that tuple in the player's sequence, returns that Play and
\* increments nothing.
C1_AddPlayIdempotent ==
    \A i \in AddPlayCalls :
        calls[i].again =>
            /\ Copies(PlayerAt(calls[i].team, calls[i].idx).plays, calls[i].play) = 1
            /\ calls[i].ret = calls[i].play
            /\ calls[i].hits = {}

\* C2 (AggSpec): an add_play call whose tuple differs from every Play already
\* in the player's sequence in at least one component constructs a new Play,
\* runs the rules on its text and appends it.
C2_DedupOnFullTuple ==
    \A i \in AddPlayCalls :
        ~calls[i].present =>
            /\ calls[i].new
            /\ calls[i].ret = calls[i].play
            /\ Copies(PlayerAt(calls[i].team, calls[i].idx).plays, calls[i].play) = 1

\* C3 (MsgSpec): the ids of the messages constructed, of whatever class, are
\* strictly increasing in construction order.
C3_MessageIdsIncrease ==
    \A i, j \in 1..Len(wire) :
        i < j => IntOf(wire[i].id) < IntOf(wire[j].id)

\* C4 (AggSpec): once a scoreboard has held shorthand S, a later reference
\* (name, S) returns that scoreboard's player of that name, or no player if
\* it has none; never a player of the other scoreboard.
C4_ShorthandBindingStable ==
    \A i \in GetPlayerCalls : \A t \in calls[i].was :
        LET mine == get_player_by_name(IF t = "away" THEN away_scoreboard
                                       ELSE home_scoreboard, calls[i].player_name)
        IN  IF mine = 0 THEN calls[i].team = None
            ELSE calls[i].team = t /\ calls[i].idx = mine

\* C5 (AggSpec): a scoreboard's team_shortname, once set, is never changed.
C5_BindingIsOneTime ==
    [][ /\ away_scoreboard.team_shortname # None
           => away_scoreboard'.team_shortname = away_scoreboard.team_shortname
        /\ home_scoreboard.team_shortname # None
           => home_scoreboard'.team_shortname = home_scoreboard.team_shortname ]_vars

SentBefore(i, cls, ws) ==
    \E j \in 1..(i-1) : wire[j].cls = cls /\ wire[j].ws = ws /\ wire[j].sent

\* C6 (Spec): on every websocket the Handshake is sent first, Connect only
\* after an acknowledgment reporting success was received on it, Subscribe
\* only after Connect, and the two tasks start only after Subscribe.
C6_ProtocolOrdering ==
    /\ \A i \in 1..Len(wire) :
          wire[i].sent =>
             /\ wire[i].cls # "HandshakeMessage" => SentBefore(i, "HandshakeMessage", wire[i].ws)
             /\ wire[i].cls = "ConnectMessage" => sockets[wire[i].ws].ack = "ok"
             /\ wire[i].cls = "SubscribeMessage" =>
                   sockets[wire[i].ws].ack = "ok" /\ SentBefore(i, "ConnectMessage", wire[i].ws)
             /\ wire[i].by = "refresh" => SentBefore(i, "SubscribeMessage", wire[i].ws)
    /\ \A t \in tasks : SentBefore(Len(wire) + 1, "SubscribeMessage", t.ws)

HandshakeSentAfter(ws) ==
    \E i \in 1..Len(wire) :
        wire[i].cls = "HandshakeMessage" /\ wire[i].ws > ws /\ wire[i].sent

SubscribeSentOn(ws) ==
    \E i \in 1..Len(wire) :
        wire[i].cls = "SubscribeMessage" /\ wire[i].ws = ws /\ wire[i].sent

Lost(ws) == Len(sockets) >= ws /\ sockets[ws].state # "open"
Acknowledged(ws) == Len(sockets) >= ws /\ sockets[ws].ack = "ok"

\* C7 (FairSpec): whenever a websocket is lost, in whatever state stream()
\* is, a Handshake is eventually sent on a later websocket; and on a
\* websocket whose handshake was acknowledged, Connect and Subscribe follow
\* unless it is lost first.
C7_ReconnectOnDrop ==
    \A ws \in 1..MaxConn :
        /\ Lost(ws) ~> HandshakeSentAfter(ws)
        /\ Acknowledged(ws) ~> (SubscribeSentOn(ws) \/ Lost(ws))

\* a frame that cannot be decoded, or whose payload has a play key that does
\* not end in the play's number
Malformed(raw_message) ==
    \/ ~raw_message.json
    \/ \E i \in 1..Len(raw_message.message) :
          LET d == raw_message.message[i].data.dict
          IN  \E k \in 1..Len(d) :
                 d[k][1][1] = "play" /\ Len(d[k][1]) >= 2 /\ ~IsDecimal(d[k][1][2])

\* C8 (Spec): the step that receives a malformed frame changes nothing in the
\* scoreboards, and leaves the processing task and stream() running.
C8_MalformedFrameIsolated ==
    [][ (nframes' = nframes + 1 /\ Malformed(lastFrame')) =>
           /\ pc' # "crashed"
           /\ tasks' = tasks
           /\ << away_scoreboard, home_scoreboard >>' = << away_scoreboard, home_scoreboard >> ]_vars

\* a message object the router must drop: another channel, no payload, or a
\* payload that carries a chart or shot_chart key
MustDrop(item) ==
    \/ "channel" \notin item.keys
    \/ item.channel # Subscription(_sports_code, _game_id)
    \/ "data" \notin item.keys
    \/ DictHas(item.data.dict, << "chart" >>)
    \/ DictHas(item.data.dict, << "shot", "chart" >>)

\* C9 (Spec): a frame whose message objects must all be dropped causes no
\* aggregator call and no change of scoreboard or player state.
C9_RouterFilters ==
    [][ ( /\ nframes' = nframes + 1
          /\ lastFrame'.json
          /\ \A i \in 1..Len(lastFrame'.message) : MustDrop(lastFrame'.message[i]) ) =>
           /\ calls' = << >>
           /\ << away_scoreboard, home_scoreboard >>' = << away_scoreboard, home_scoreboard >> ]_vars

\* C10 (AggSpec): applying a play not yet in the sequence with the text
\* "Doe(ABC) made Layup" to the player Doe increments field_goals_made and
\* field_goals_attempted.
C10_MadeLayupScenario ==
    \A i \in AddPlayCalls :
        ( /\ calls[i].play.play_text = TxtMadeLayup("Doe", "ABC")
          /\ calls[i].player_name = << "Doe" >>
          /\ ~calls[i].present ) =>
            { "field_goals_made", "field_goals_attempted" } \subseteq calls[i].hits

-----------------------------------------------------------------------------
(* Properties of the rule table, the replay, the tasks and the bootstrap.  *)

\* the fields whose regex finds a match in the text
Matching(play_text) ==
    { RegexFields[j] : j \in { k \in 1..Len(RegexFields) :
                                 RegexSearch(RegexFields[k], play_text) } }

\* C11 (AggSpec): an add_play call that applies a new play increments by
\* exactly one every counter whose rule matches the text, whatever rules
\* matched before it, and changes no other field.
C11_MultiRuleDispatch ==
    \A i \in AddPlayCalls :
        calls[i].new =>
            calls[i].deltas = { << f, 1 >> : f \in Matching(calls[i].play.play_text) }

\* a made three-pointer was applied and counted as made and as attempted
C11_Witness ==
    \E i \in AddPlayCalls :
        /\ calls[i].new
        /\ calls[i].play.play_text = Txt3ptMade("Doe", "ABC")
        /\ { "three_point_field_goals_made", "three_point_field_goals_attempted" }
              \subseteq calls[i].hits

\* the frame just received is the one received before it, on a later websocket
Replayed ==
    /\ nframes >= 1
    /\ nframes' = nframes + 1
    /\ lastFrame'.json
    /\ lastFrame'.message = lastFrame.message
    /\ lastFrame'.ws > lastFrame.ws

\* C12 (Spec): losing a connection and getting the next one changes nothing
\* in the scoreboards, and a frame delivered again on the new connection
\* changes no counter and appends no Play.
C12_ReplayAfterReconnect ==
    [][ /\ (conn' # conn \/ sockets' # sockets) =>
              UNCHANGED << away_scoreboard, home_scoreboard >>
        /\ Replayed =>
              /\ away_scoreboard'.players = away_scoreboard.players
              /\ home_scoreboard'.players = home_scoreboard.players ]_vars

\* the counting statistics of a Player
CounterFields ==
    { "field_goals_made", "field_goals_attempted", "three_point_field_goals_made",
      "three_point_field_goals_attempted", "free_throws_made", "free_throws_attempted",
      "points", "offensive_rebounds", "defensive_rebounds", "total_rebounds", "assists",
      "turnovers", "steals", "blocks", "fouls", "disqualifications", "technical_fouls" }

Teams == { "away", "home" }

\* C13 (Spec): no step of the session, whether a frame, a keep-alive, a loss
\* of the connection or a reconnect, lowers a counter of a player.
C13_CountersNeverDecrease ==
    [][ \A team \in Teams :
          \A idx \in 1..Len((IF team = "away" THEN away_scoreboard
                             ELSE home_scoreboard).players) :
             \A f \in CounterFields :
                PlayerAt(team, idx)'[f] >= PlayerAt(team, idx)[f] ]_vars

\* a counter has grown, a keep-alive was sent and a second websocket is in use
C13_Witness ==
    /\ conn = 2
    /\ \E i \in 1..Len(wire) : wire[i].by = "refresh" /\ wire[i].sent
    /\ \E team \in Teams : \E idx \in 1..2 : \E f \in CounterFields :
          PlayerAt(team, idx)[f] > snapshot[team].players[idx][f]

\* the tasks of one kind that have not ended
TasksOf(kind) == { t \in tasks : t.kind = kind }

\* C14 (Spec): at most one keep-alive task and one frame-processing task
\* exist; while stream() works on a websocket no task of an earlier websocket
\* is left; and no keep-alive task constructs a message for a websocket after
\* the Handshake of a later websocket was constructed.
C14_TaskPairing ==
    /\ Cardinality(TasksOf("refresh")) <= 1
    /\ Cardinality(TasksOf("process")) <= 1
    /\ pc \in { "handshake", "recv", "connect", "subscribe", "gather" } =>
          \A t \in tasks : t.ws = conn
    /\ \A i, j \in 1..Len(wire) :
          ( /\ wire[i].cls = "HandshakeMessage"
            /\ wire[j].by = "refresh"
            /\ wire[j].ws < wire[i].ws ) => j < i

\* C15 (Spec): every Connect or Subscribe message constructed carries a
\* clientId that was assigned, and it is the clientId the server gave in the
\* acknowledgment received on the websocket the message is for.
C15_ClientIdPerConnection ==
    \A i \in 1..Len(wire) :
        wire[i].cls # "HandshakeMessage" =>
            /\ wire[i].clientId # NoAttr
            /\ sockets[wire[i].ws].ack = "ok"
            /\ wire[i].clientId = ServerClientId(wire[i].ws)

\* C16 (Spec): a step changes a scoreboard or a player only if it is the
\* handling of one received frame by the frame-processing task; every step
\* that constructs a message, moves stream() on, or changes a websocket or
\* the set of tasks without receiving a frame leaves the scoreboards as
\* they are.
C16_SingleWriter ==
    [][ /\ << away_scoreboard, home_scoreboard >>' # << away_scoreboard, home_scoreboard >> =>
              /\ nframes' = nframes + 1
              /\ \E t \in TasksOf("process") : lastFrame'.ws = t.ws /\ IsOpen(t.ws)
              /\ UNCHANGED << wire, _client_id, _id_counter, conn, sockets >>
        /\ (wire' # wire \/ conn' # conn \/ sockets' # sockets \/ _client_id' # _client_id) =>
              UNCHANGED << away_scoreboard, home_scoreboard >> ]_vars

\* the keep-alive task and the processing task of a websocket have both
\* run: a keep-alive was sent and a frame has changed a player
C16_Witness ==
    /\ \E i \in 1..Len(wire) : wire[i].by = "refresh" /\ wire[i].sent
    /\ nframes >= 1
    /\ << away_scoreboard.players, home_scoreboard.players >>
          # << snapshot.away.players, snapshot.home.players >>

\* a name that no player of either scoreboard has
Unknown(player_name) ==
    /\ get_player_by_name(away_scoreboard, player_name) = 0
    /\ get_player_by_name(home_scoreboard, player_name) = 0

\* the references in the play text of the entry the handler was given
EntryRefs ==
    LET play_info == lastFrame.message[1].data.dict[1][2]
        text == play_info.dict[1][2].text
    IN  { i \in 1..Len(text) : IsRef(text[i]) }

\* C17 (AggSpec): a reference whose name is in neither scoreboard gets no
\* player from _get_player, binds or alters no shorthand and is followed by
\* no add_play; and every reference of the entry is looked up, those after
\* an unresolved one too.
C17_UnresolvedReference ==
    lastFrame.message # << >> =>
        /\ Cardinality(GetPlayerCalls) = Cardinality(EntryRefs)
        /\ \A i \in GetPlayerCalls :
              Unknown(calls[i].player_name) =>
                  /\ calls[i].idx = 0
                  /\ calls[i].after = calls[i].before
                  /\ i < Len(calls) => calls[i+1].op = "_get_player"

\* an unresolved reference was followed by one that resolved and was applied
C17_Witness ==
    /\ lastFrame.message # << >>
    /\ \E i \in GetPlayerCalls :
          /\ Unknown(calls[i].player_name)
          /\ calls[i].idx = 0
          /\ \E j \in AddPlayCalls : j > i /\ calls[j].new

\* C18 (AggSpec): an add_play call with a tuple not yet in the player's
\* sequence and a text that no rule matches appends the Play, emits the
\* unmatched-play warning and changes no counter.
C18_UnmatchedPlayText ==
    \A i \in AddPlayCalls :
        ( ~calls[i].present /\ Matching(calls[i].play.play_text) = {} ) =>
            /\ calls[i].new
            /\ ~calls[i].matched
            /\ calls[i].hits = {}
            /\ Copies(PlayerAt(calls[i].team, calls[i].idx).plays, calls[i].play) = 1

\* the cookies of the response's Set-Cookie header (none if it has no such header)
SetCookieOf(resp) == DictGet(resp.headers, "Set-Cookie", << >>)

\* the header names the token: some cookie has that name
Names(resp, name) ==
    \E i \in 1..Len(SetCookieOf(resp)) : SetCookieOf(resp)[i][1] = name

\* C19 (BootSpec): when the fetch succeeded the construction completes,
\* whatever the Set-Cookie header is and also when it is missing; a user
\* token or session token the header does not name is the empty string.
C19_LenientBootstrap ==
    (pc # "boot" /\ response.ok) =>
        /\ pc = "constructed"
        /\ error = "none"
        /\ ~Names(response, "livestream_user_id") =>
              _websocket_message_ext.livestream_user_id = << >>
        /\ ~(Names(response, "_stats_session") \/ Names(response, "x_stats_session")) =>
              _session_cookie._stats_session = << >>

\* C20 (Spec): a message with identifier N was constructed and its send
\* completed before any message with a greater identifier was constructed.
C20_SendBeforeConstruct ==
    \A i, j \in 1..Len(wire) :
        IntOf(wire[j].id) > IntOf(wire[i].id) => (i < j /\ wire[i].sent)

-----------------------------------------------------------------------------
(* Properties of the sends, the session context, the ledger and the        *)
(* binding of shorthands.                                                  *)

\* C21 (SendSpec): on one websocket at most one send is in progress; a
\* setup send begins only when the setup sends before it on that websocket
\* have completed, and while one is in progress no keep-alive task exists
\* for that websocket and none has constructed a message for it.
C21_SerializedSends ==
    \A ws \in 1..Len(sockets) :
        /\ Cardinality({ i \in inflight : wire[i].ws = ws }) <= 1
        /\ \A i, j \in 1..Len(wire) :
              ( /\ i < j
                /\ wire[i].ws = ws /\ wire[j].ws = ws
                /\ wire[i].by = "stream" /\ wire[j].by = "stream" ) => wire[i].sent
        /\ Sending(ws, "stream") # {} =>
              /\ Task("refresh", ws) \notin tasks
              /\ \A i \in 1..Len(wire) : ~(wire[i].by = "refresh" /\ wire[i].ws = ws)

\* a keep-alive send is in progress on a websocket that has carried the
\* three setup messages and an earlier keep-alive
C21_Witness ==
    \E i \in inflight :
        /\ wire[i].by = "refresh"
        /\ \E j \in 1..Len(wire) :
              wire[j].by = "refresh" /\ wire[j].ws = wire[i].ws /\ wire[j].sent
        /\ \A cls \in MessageClasses :
              \E j \in 1..Len(wire) :
                 wire[j].cls = cls /\ wire[j].by = "stream" /\ wire[j].ws = wire[i].ws
                    /\ wire[j].sent


\* C22 (Spec): the extension payload and the cookie string stay what
\* __init__ computed from the box score response; every websocket was opened
\* with that cookie and every message constructed carries that payload.
C22_SessionContextImmutable ==
    \E self \in { __init__(_sports_code, _game_id, response) } :
        /\ self.err = "none"
        /\ _websocket_message_ext = self._websocket_message_ext
        /\ _session_cookie = self._session_cookie
        /\ \A ws \in 1..Len(sockets) : sockets[ws].cookie = self._session_cookie
        /\ \A i \in 1..Len(wire) : wire[i].ext = self._websocket_message_ext

\* after a reconnect the second websocket has carried a Handshake, a
\* Connect and a Subscribe of stream() and a keep-alive Connect
C22_Witness ==
    /\ conn = 2
    /\ \A cls \in MessageClasses :
          \E i \in 1..Len(wire) :
             wire[i].cls = cls /\ wire[i].ws = 2 /\ wire[i].by = "stream" /\ wire[i].sent
    /\ \E i \in 1..Len(wire) : wire[i].by = "refresh" /\ wire[i].ws = 2 /\ wire[i].sent
    /\ \E i \in 1..Len(wire) : wire[i].ws = 1


\* the sequence s is the beginning of the sequence t
IsPrefix(s, t) == Len(s) <= Len(t) /\ \A k \in 1..Len(s) : t[k] = s[k]

\* the players of a scoreboard, by index
Roster(team) == 1..Len((IF team = "away" THEN away_scoreboard ELSE home_scoreboard).players)

\* C23 (AggSpec): across every step the plays sequence of every player is
\* a prefix of the sequence afterwards: no Play is removed, moved or changed.
C23_AppendOnlyLedger ==
    [][ \A team \in Teams : \A idx \in Roster(team) :
           IsPrefix(PlayerAt(team, idx).plays, PlayerAt(team, idx)'.plays) ]_vars

\* a player holds two Plays or more, and the last call appended the last of them
C23_Witness ==
    \E i \in AddPlayCalls :
        /\ calls[i].new
        /\ Len(PlayerAt(calls[i].team, calls[i].idx).plays) >= 2
        /\ PlayerAt(calls[i].team, calls[i].idx).plays[
              Len(PlayerAt(calls[i].team, calls[i].idx).plays)] = calls[i].play


\* the numbers n for which the payload d has a key play_<n> or play_text_<n>
BundleIds(d) ==
    { n \in PlayIds : DictHas(d, PlayKey(n)) \/ DictHas(d, PlayTextKey(n)) }

\* the map that holds the sibling fields of play n: the value of play_<n>
\* if the payload has that key, else the payload itself
Siblings(d, n) ==
    IF DictHas(d, PlayKey(n)) THEN DictGet(d, PlayKey(n), VDict(<< >>)).dict ELSE d

\* the message objects of a frame on the subscribed channel that carry a
\* payload and no chart
RelevantItems(message) ==
    { i \in 1..Len(message) : _is_relevant_message(message[i], _sports_code, _game_id) }

\* C24 (Spec): the step that receives a frame whose relevant message
\* objects carry play bundles, the sibling fields inside the value of the
\* play_<id> key or beside it in the payload map itself, ends without
\* failure, and every play it submits to a player has the identifier, clock
\* and period of one of those bundles.
C24_RouterBundleResolution ==
    [][ ( /\ nframes' = nframes + 1
          /\ lastFrame'.json
          /\ \E k \in RelevantItems(lastFrame'.message) :
                BundleIds(lastFrame'.message[k].data.dict) # {} ) =>
           /\ pc' # "crashed"
           /\ tasks' = tasks
           /\ \A i \in 1..Len(calls') :
                 calls'[i].op = "add_play" =>
                    \E k \in RelevantItems(lastFrame'.message) :
                       \E n \in BundleIds(lastFrame'.message[k].data.dict) :
                          LET s == Siblings(lastFrame'.message[k].data.dict, n)
                          IN  /\ calls'[i].play.play_id = n
                              /\ calls'[i].play.clock = DictGet(s, ClockKey(n), VStr("")).str
                              /\ calls'[i].play.period = DictGet(s, PeriodKey(n), VInt(0)).int ]_vars


\* C25 (AggSpec): a _get_player call with a shorthand that neither
\* scoreboard holds returns the away player of that name if there is one,
\* else the home player of that name, and sets the shorthand on the
\* scoreboard of the player returned and on no other; when no roster has the
\* name it returns None and sets nothing.
C25_LazyBindingOnFirstMatch ==
    \A i \in GetPlayerCalls :
        LET c == calls[i]
            S == c.team_shortname
            a == get_player_by_name(snapshot.away, c.player_name)
            h == get_player_by_name(snapshot.home, c.player_name)
        IN  ( c.before[1] # S /\ c.before[2] # S ) =>
               /\ a # 0 => ( c.team = "away" /\ c.idx = a /\ c.after = << S, c.before[2] >> )
               /\ ( a = 0 /\ h # 0 ) =>
                     ( c.team = "home" /\ c.idx = h /\ c.after = << c.before[1], S >> )
               /\ ( a = 0 /\ h = 0 ) => ( c.idx = 0 /\ c.after = c.before )

\* Smith, who is on both rosters, was looked up with a shorthand that no
\* scoreboard held while the home scoreboard held another: the away Smith
\* was returned and the away scoreboard was bound
C25_Witness ==
    \E i \in GetPlayerCalls :
        /\ calls[i].player_name = << "Smith" >>
        /\ calls[i].before[1] # calls[i].team_shortname
        /\ calls[i].before[2] \notin { None, calls[i].team_shortname }
        /\ calls[i].team = "away"
        /\ calls[i].after = << calls[i].team_shortname, calls[i].before[2] >>

\* C26 (AggSpec): the away and the home scoreboard never hold the same
\* shorthand.
C26_DistinctShorthands ==
    away_scoreboard.team_shortname # None =>
        away_scoreboard.team_shortname # home_scoreboard.team_shortname

\* both scoreboards hold a shorthand, and the last lookup bound one of them
\* while the other was already bound
C26_Witness ==
    /\ away_scoreboard.team_shortname # None
    /\ home_scoreboard.team_shortname # None
    /\ \E i \in GetPlayerCalls :
          /\ calls[i].after # calls[i].before
          /\ \E k \in 1..2 : calls[i].before[k] # None
          /\ None \notin { calls[i].after[1], calls[i].after[2] }


\* how many Plays of the sequence have a text that the rule of field f matches
Counted(plays, f) == Cardinality({ k \in 1..Len(plays) : RegexSearch(f, plays[k].play_text) })

\* C27 (AggSpec): every counter that has a rule equals its value in the
\* roster snapshot plus the number of the player's Plays whose text the rule
\* matches.
C27_LedgerCounterConsistency ==
    \A team \in Teams : \A idx \in Roster(team) :
        \A j \in 1..Len(RegexFields) :
            PlayerAt(team, idx)[RegexFields[j]]
               = snapshot[team].players[idx][RegexFields[j]]
                    + Counted(PlayerAt(team, idx).plays, RegexFields[j])

\* a player whose box score already showed field goals holds two counted
\* Plays, and the last call was refused as a play already held
C27_Witness ==
    \E i \in AddPlayCalls :
        /\ ~calls[i].new
        /\ Matching(calls[i].play.play_text) # {}
        /\ snapshot[calls[i].team].players[calls[i].idx].field_goals_attempted > 0
        /\ Counted(PlayerAt(calls[i].team, calls[i].idx).plays, "field_goals_attempted") >= 2

\* a made counter and its attempted counter
MadeAttempted ==
    { << "field_goals_made", "field_goals_attempted" >>,
      << "three_point_field_goals_made", "three_point_field_goals_attempted" >>,
      << "free_throws_made", "free_throws_attempted" >> }

\* C28 (AggSpec): an add_play call that increments a made counter
\* increments its attempted counter too, and no made counter has grown by
\* more than its attempted counter since the snapshot.
C28_MadeNeverOutrunsAttempted ==
    /\ \A i \in AddPlayCalls : \A ma \in MadeAttempted :
          ma[1] \in calls[i].hits => ma[2] \in calls[i].hits
    /\ \A team \in Teams : \A idx \in Roster(team) : \A ma \in MadeAttempted :
          PlayerAt(team, idx)[ma[1]] - snapshot[team].players[idx][ma[1]]
             <= PlayerAt(team, idx)[ma[2]] - snapshot[team].players[idx][ma[2]]

\* a player has a made free throw and a made field goal counted, each with
\* its attempt
C28_Witness ==
    \E team \in Teams : \E idx \in Roster(team) :
        /\ \E i \in AddPlayCalls :
              /\ calls[i].team = team /\ calls[i].idx = idx
              /\ \E ma \in MadeAttempted : { ma[1], ma[2] } \subseteq calls[i].hits
        /\ PlayerAt(team, idx).free_throws_made > snapshot[team].players[idx].free_throws_made
        /\ PlayerAt(team, idx).field_goals_made > snapshot[team].players[idx].field_goals_made

\* the attributes of a Player that have no rule
Ruleless ==
    { "name", "number", "position", "starter", "on_court", "minutes_played", "points",
      "offensive_rebounds", "defensive_rebounds", "total_rebounds", "assists", "steals",
      "blocks", "disqualifications", "technical_fouls" }

\* C29 (AggSpec): no step changes an attribute without a rule, adds a
\* player to a roster or removes one, or changes anything of a player that
\* none of the step's add_play calls was made on.
C29_AddPlayFrame ==
    [][ \A team \in Teams :
           /\ Roster(team)' = Roster(team)
           /\ \A idx \in Roster(team) :
                 /\ \A f \in Ruleless : PlayerAt(team, idx)'[f] = PlayerAt(team, idx)[f]
                 /\ ( \A i \in 1..Len(calls') :
                         ~( calls'[i].op = "add_play" /\ calls'[i].team = team
                            /\ calls'[i].idx = idx ) )
                       => PlayerAt(team, idx)' = PlayerAt(team, idx) ]_vars

\* a play that counted was just applied to one player while another player
\* holds plays applied before
C29_Witness ==
    \E i \in AddPlayCalls :
        /\ calls[i].new
        /\ calls[i].hits # {}
        /\ \E team \in Teams : \E idx \in Roster(team) :
              /\ << team, idx >> # << calls[i].team, calls[i].idx >>
              /\ PlayerAt(team, idx).plays # << >>
              /\ \A j \in AddPlayCalls : << calls[j].team, calls[j].idx >> # << team, idx >>

=============================================================================
